---- MODULE Spec2Model ----
(***************************************************************************)
(* Model of src/alert_report_generator_api.py: the GET handler             *)
(* generate_alert_pdf and the AretasAPIUtils gateway it drives.            *)
(*                                                                         *)
(* One request walks through the handler statement by statement; `stage`   *)
(* is its position.  Up to two requests are served, interleaved at the     *)
(* granularity of those statements.  The upstream service, the host time   *)
(* zone and the wall clock are the environment.                            *)
(*                                                                         *)
(* Python's Optional values are sequences of length 0 (None) or 1.         *)
(* Strings that the code inspects (the Authorization header) are           *)
(* sequences of one-character strings.  Times are epoch milliseconds.      *)
(***************************************************************************)
EXTENDS Integers, Sequences, FiniteSets, TLC

\* ------------------------------------------------------------------ bounds
\* Largest epoch hour of the time grid from which the upstream event's
\* timestamps and the wall clock are drawn.
MaxHour == 5

\* ------------------------------------------------------- program constants
HourMs == 3600000            \* timedelta(hours=1), in milliseconds
max_fold_seconds == 24 * HourMs \* the probe distance of datetime.timestamp()

None == <<>>
Some(x) == <<x>>

Requests == {1, 2}
EventIds == {42, 43}

\* ------------------------------------------------------------- header text
Bearer == <<"B", "e", "a", "r", "e", "r", " ">>
TokA == <<"t", "A">>
TokB == <<"t", "B">>

\* Authorization header values a client may send (None = header absent).
Headers ==
  { None,
    Some(<<>>),
    Some(<<"B", "a", "s", "i", "c", " ", "t", "A">>),
    Some(<<"b", "e", "a", "r", "e", "r", " ", "t", "A">>),
    Some(<<"B", "e", "a", "r", "e", "r">>),
    Some(Bearer),
    Some(Bearer \o TokA),
    Some(Bearer \o TokB) }

\* str.startswith
startswith(s, p) == Len(s) >= Len(p) /\ SubSeq(s, 1, Len(p)) = p

\* str.split(sep): the list of the pieces between the separators
RECURSIVE split(_, _)
split(s, sep) ==
  IF \A i \in 1..Len(s) : s[i] # sep
  THEN <<s>>
  ELSE LET i == CHOOSE k \in 1..Len(s) :
                  s[k] = sep /\ \A j \in 1..(k - 1) : s[j] # sep
       IN <<SubSeq(s, 1, i - 1)>> \o split(SubSeq(s, i + 1, Len(s)), sep)

\* ---------------------------------------------------------------- upstream
\* Status codes the upstream may answer with; Err = requests.get raised.
StatusCodes == {200, 204, 300, 404, 500}

Responses == [err : {FALSE}, status : StatusCodes] \cup [err : {TRUE}, status : {0}]

\* requests.Response.raise_for_status: raises for 4xx and 5xx only
raise_for_status(status) == 400 <= status /\ status < 600

AlertDef(id, desc) == [id |-> id, description |-> desc, sensorType |-> 1]

\* Contents of the upstream alert list (alert/list)
AlertLists ==
  { <<>>,
    <<AlertDef("a2", "d2")>>,
    <<AlertDef("a2", "d2"), AlertDef("a1", "d1")>>,
    <<AlertDef("a1", "d1"), AlertDef("a1", "dup")>> }

TimeGrid == {h * HourMs : h \in 0..MaxHour}

EventRecord(id, alertId, T, R) ==
  [mac |-> 111, timestamp |-> T, type |-> 1, alertId |-> alertId,
   eventId |-> id, rtnTimestamp |-> R]

\* ---------------------------------------------------------- host time zone
\* A zone is its UTC offset before and after one transition instant.
UTC == [trans |-> 0, before |-> 0, after |-> 0]
FallBack == [trans |-> 3 * HourMs, before |-> 2 * HourMs, after |-> HourMs]
SpringForward == [trans |-> 3 * HourMs, before |-> HourMs, after |-> 2 * HourMs]
TimeZones == {UTC, FallBack, SpringForward}

\* time.localtime: the UTC offset in force at UTC instant u
utcoffset(z, u) == IF u < z.trans THEN z.before ELSE z.after

\* datetime.fromtimestamp(ms / 1000): the naive local wall-clock reading of u
fromtimestamp(z, u) == u + utcoffset(z, u)

\* int(d.timestamp() * 1000) for a naive datetime d with fold = 0 (the result
\* of datetime +/- timedelta): the UTC instant whose local reading is t,
\* found the way datetime does (two probes; in a gap the later candidate)
timestamp(z, t) ==
  LET a  == fromtimestamp(z, t) - t
      u1 == t - a
      t1 == fromtimestamp(z, u1)
      p  == u1 - max_fold_seconds
      b  == IF t1 = t THEN fromtimestamp(z, p) - p ELSE t1 - u1
      u2 == t - b
      t2 == fromtimestamp(z, u2)
  IN IF t1 = t /\ a = b THEN u1
     ELSE IF t2 = t THEN u2
     ELSE IF t1 = t THEN u1
     ELSE IF u1 > u2 THEN u1 ELSE u2

\* start_time: trigger time minus one hour of wall-clock time
start_time_of(z, T) == timestamp(z, fromtimestamp(z, T) - HourMs)

\* end_time: return-to-normal time, or the current time when rtnTimestamp is
\* not > 0, plus one hour of wall-clock time
end_time_of(z, R, nowMs) ==
  LET rtn_time == IF R > 0 THEN fromtimestamp(z, R) ELSE fromtimestamp(z, nowMs)
  IN timestamp(z, rtn_time + HourMs)

\* Wall-clock readings datetime.now() may return (as UTC instants): the
\* request is served no earlier than the latest instant of the time grid
NowValues == {MaxHour * HourMs, (MaxHour + 1) * HourMs}

\* ------------------------------------------------------------------- state
VARIABLES
  reqs,      \* the requests the server receives in this run
  tz,        \* the host's time zone (process environment)
  upstream,  \* the upstream service's data: events by id, the alert list
  req        \* per request: the handler's position and local variables

vars == <<reqs, tz, upstream, req>>

\* The locals of one call of generate_alert_pdf before its first statement
NewRequest ==
  [ stage                   |-> "Idle",
    trace                   |-> <<>>,      \* stages passed, in order
    calls                   |-> <<>>,      \* upstream calls issued, in order
    authorization           |-> None,
    alert_history_record_id |-> 0,
    access_token            |-> None,
    api                     |-> None,      \* AretasAPIUtils.access_token
    alert_history_record    |-> None,
    alert                   |-> None,
    now                     |-> None,      \* datetime.now(), when it was read
    start_time              |-> 0,
    end_time                |-> 0,
    chart_image_bytes       |-> None,
    map_outcome             |-> "none",
    hasMap                  |-> FALSE,
    map_image               |-> None,
    model                   |-> None,
    pdf                     |-> None,
    response                |-> [status |-> 0, body |-> None] ]

\* A stage is entered: the position moves and the stage joins the trace
Enter(q, st) == [q EXCEPT !.stage = st, !.trace = Append(@, st)]

\* An exception leaves the handler: HTTPException(401) as raised, anything
\* else as the framework's 500; nothing is streamed
Abort(q, status) ==
  [Enter(q, "Failed") EXCEPT !.response = [status |-> status, body |-> None]]

\* An upstream call is issued; the log keeps what was asked and the answer
Call(q, endpoint, token, args, resp) ==
  [q EXCEPT !.calls = Append(@, [endpoint |-> endpoint, token |-> token,
                                 args |-> args, answer |-> resp])]

\* ------------------------------------------------- AretasAPIUtils (gateway)
Raised == [raised |-> TRUE, value |-> None]
Returned(v) == [raised |-> FALSE, value |-> v]

\* fetch_alert_history_record: body is the upstream's record for the id
\* (None: JSON null, which AlertHistoryRecord(**...) rejects)
fetch_alert_history_record(resp, body) ==
  IF resp.err THEN Raised
  ELSE IF resp.status = 200
       THEN IF body = None THEN Raised ELSE Returned(body)
  ELSE IF raise_for_status(resp.status) THEN Raised
  ELSE Returned(None)

\* fetch_alerts
fetch_alerts(resp, list) ==
  IF resp.err THEN Raised
  ELSE IF resp.status = 200 THEN Returned(Some(list))
  ELSE IF raise_for_status(resp.status) THEN Raised
  ELSE Returned(None)

\* fetch_alert: the first alert of the list with the id, else None;
\* iterating over a None list raises
fetch_alert(resp, list, alert_id) ==
  LET alerts == fetch_alerts(resp, list)
  IN IF alerts.raised \/ alerts.value = None THEN Raised
     ELSE LET l == alerts.value[1]
              hits == {i \in 1..Len(l) : l[i].id = alert_id}
          IN IF hits = {} THEN Returned(None)
             ELSE Returned(Some(l[CHOOSE i \in hits : \A j \in hits : i <= j]))

\* fetch_image_plotly: a non-200 answer raises only through
\* raise_for_status; otherwise the body is parsed and plotted
fetch_image_plotly(resp, bodyOk, mac, begin, end, sensortypes) ==
  IF resp.err THEN Raised
  ELSE IF resp.status # 200 /\ raise_for_status(resp.status) THEN Raised
  ELSE IF ~bodyOk THEN Raised
  ELSE Returned(Some([mac |-> mac, begin |-> begin, end |-> end, type |-> sensortypes]))

\* ------------------------------------------------ generate_alert_pdf, steps
\* Variant of ExtractToken without the startswith("Bearer ") check: any
\* non-empty header is split (no second piece: IndexError, a 500)
ExtractToken_NoPrefixCheck(q, hdr, id) ==
  LET q0 == [q EXCEPT !.authorization = hdr, !.alert_history_record_id = id]
  IN IF hdr = None \/ hdr[1] = <<>> THEN Abort(q0, 401)
     ELSE IF Len(split(hdr[1], " ")) < 2 THEN Abort(q0, 500)
     ELSE LET access_token == split(hdr[1], " ")[2]
          IN [Enter(q0, "AuthExtracted") EXCEPT
                !.access_token = Some(access_token),
                !.api = Some(access_token)]

\* Header checks and token extraction
ExtractToken(q, hdr, id) ==
  LET q0 == [q EXCEPT !.authorization = hdr, !.alert_history_record_id = id]
  IN IF hdr = None \/ hdr[1] = <<>> THEN Abort(q0, 401)
     ELSE IF ~startswith(hdr[1], Bearer) THEN Abort(q0, 401)
     ELSE LET access_token == split(hdr[1], " ")[2]
          IN [Enter(q0, "AuthExtracted") EXCEPT
                !.access_token = Some(access_token),
                !.api = Some(access_token)]

\* Variant of Receive that keeps the extracted token in one module-level
\* variable, which every request in flight then reads
Receive_SharedToken(r) ==
  /\ r \in reqs
  /\ req[r].stage = "Idle"
  /\ \E hdr \in Headers, id \in EventIds :
       LET mine == ExtractToken(req[r], hdr, id)
       IN req' = [x \in Requests |->
                    IF x = r THEN mine
                    ELSE IF mine.access_token # None /\ req[x].access_token # None
                         THEN [req[x] EXCEPT !.access_token = mine.access_token]
                         ELSE req[x]]
  /\ UNCHANGED <<reqs, tz, upstream>>

Receive(r) ==
  /\ r \in reqs
  /\ req[r].stage = "Idle"
  /\ \E hdr \in Headers, id \in EventIds :
       req' = [req EXCEPT ![r] = ExtractToken(@, hdr, id)]
  /\ UNCHANGED <<reqs, tz, upstream>>

\* Variant of EventStep that issues the event call a second time when the
\* first attempt fails
EventStep_Retry(q, resp) ==
  LET q1 == Call(q, "alertlog/getbyeventid", q.access_token[1],
                 <<q.alert_history_record_id>>, resp)
      res == fetch_alert_history_record(resp, upstream.events[q.alert_history_record_id])
  IN IF res.raised
     THEN Abort(Call(q1, "alertlog/getbyeventid", q.access_token[1],
                     <<q.alert_history_record_id>>, resp), 500)
     ELSE [Enter(q1, "EventFetched") EXCEPT !.alert_history_record = res.value]

\* alert_history_record = api.fetch_alert_history_record(id, access_token)
EventStep(q, resp) ==
  LET q1 == Call(q, "alertlog/getbyeventid", q.access_token[1],
                 <<q.alert_history_record_id>>, resp)
      res == fetch_alert_history_record(resp, upstream.events[q.alert_history_record_id])
  IN IF res.raised THEN Abort(q1, 500)
     ELSE [Enter(q1, "EventFetched") EXCEPT !.alert_history_record = res.value]

FetchEvent(r) ==
  /\ req[r].stage = "AuthExtracted"
  /\ \E resp \in Responses : req' = [req EXCEPT ![r] = EventStep(@, resp)]
  /\ UNCHANGED <<reqs, tz, upstream>>

\* alert = api.fetch_alert(alert_history_record.alertId, access_token);
\* reading .alertId of a None record raises before any call is made
DefinitionStep(q, resp) ==
  IF q.alert_history_record = None THEN Abort(q, 500)
  ELSE LET q1 == Call(q, "alert/list", q.access_token[1], <<>>, resp)
           res == fetch_alert(resp, upstream.alerts, q.alert_history_record[1].alertId)
       IN IF res.raised THEN Abort(q1, 500)
          ELSE [Enter(q1, "DefinitionFetched") EXCEPT !.alert = res.value]

FetchDefinition(r) ==
  /\ req[r].stage = "EventFetched"
  /\ \E resp \in Responses : req' = [req EXCEPT ![r] = DefinitionStep(@, resp)]
  /\ UNCHANGED <<reqs, tz, upstream>>

\* alert_time, rtn_time, start_time, end_time; the clock is read only when
\* rtnTimestamp is not > 0
WindowStep(q, nowMs) ==
  LET rec == q.alert_history_record[1]
  IN [Enter(q, "WindowComputed") EXCEPT
        !.now = IF rec.rtnTimestamp > 0 THEN None ELSE Some(nowMs),
        !.start_time = start_time_of(tz, rec.timestamp),
        !.end_time = end_time_of(tz, rec.rtnTimestamp, nowMs)]

ComputeWindow(r) ==
  /\ req[r].stage = "DefinitionFetched"
  /\ \E nowMs \in NowValues : req' = [req EXCEPT ![r] = WindowStep(@, nowMs)]
  /\ UNCHANGED <<reqs, tz, upstream>>

\* chart_image_bytes = api.fetch_image_plotly(mac, start_time, end_time, type, token)
ChartStep(q, resp, bodyOk) ==
  LET rec == q.alert_history_record[1]
      q1 == Call(q, "sensordata/byrange", q.access_token[1],
                 <<rec.mac, q.start_time, q.end_time, rec.type>>, resp)
      res == fetch_image_plotly(resp, bodyOk, rec.mac, q.start_time, q.end_time, rec.type)
  IN IF res.raised THEN Abort(q1, 500)
     ELSE [Enter(q1, "ChartFetched") EXCEPT !.chart_image_bytes = res.value]

\* Variant of FetchChart issued as soon as the definition is there, without
\* waiting for the window
FetchChart_BeforeWindow(r) ==
  /\ req[r].stage = "DefinitionFetched"
  /\ \E resp \in Responses, bodyOk \in BOOLEAN :
       req' = [req EXCEPT ![r] = ChartStep(@, resp, bodyOk)]
  /\ UNCHANGED <<reqs, tz, upstream>>

FetchChart(r) ==
  /\ req[r].stage = "WindowComputed"
  /\ \E resp \in Responses, bodyOk \in BOOLEAN :
       req' = [req EXCEPT ![r] = ChartStep(@, resp, bodyOk)]
  /\ UNCHANGED <<reqs, tz, upstream>>

\* The optional map branch: attempted only when the sensor has a map id; a
\* failed map fetch is recorded and the pipeline goes on without a map
\* Variant of MapStep in which a failed map fetch aborts the request
MapStep_Fatal(q, mapId, resp) ==
  IF mapId = None
  THEN [Enter(q, "MapAttempted") EXCEPT !.map_outcome = "not_configured"]
  ELSE LET q1 == Call(q, "map", q.access_token[1], <<mapId[1]>>, resp)
       IN IF ~resp.err /\ resp.status = 200
          THEN [Enter(q1, "MapAttempted") EXCEPT
                  !.map_outcome = "fetched", !.hasMap = TRUE,
                  !.map_image = Some([mapId |-> mapId[1],
                                      marker |-> q.alert_history_record[1].mac])]
          ELSE [Abort(q1, 500) EXCEPT !.map_outcome = "failed"]

MapStep(q, mapId, resp) ==
  IF mapId = None
  THEN [Enter(q, "MapAttempted") EXCEPT !.map_outcome = "not_configured"]
  ELSE LET q1 == Call(q, "map", q.access_token[1], <<mapId[1]>>, resp)
       IN IF ~resp.err /\ resp.status = 200
          THEN [Enter(q1, "MapAttempted") EXCEPT
                  !.map_outcome = "fetched", !.hasMap = TRUE,
                  !.map_image = Some([mapId |-> mapId[1],
                                      marker |-> q.alert_history_record[1].mac])]
          ELSE [Enter(q1, "MapAttempted") EXCEPT !.map_outcome = "failed"]

MapAttempted(r) ==
  /\ req[r].stage = "ChartFetched"
  /\ \E mapId \in {None, Some("m1")}, resp \in Responses :
       req' = [req EXCEPT ![r] = MapStep(@, mapId, resp)]
  /\ UNCHANGED <<reqs, tz, upstream>>

\* Variant of MapSection that never puts a map into the report
MapSection_Absent(q) == None

\* The map section of the report: present only when a map was fetched
MapSection(q) == IF q.hasMap THEN q.map_image ELSE None

\* base64.b64encode(...).decode('utf-8'): a text form of the same bytes
b64encode(bytes) == [base64 |-> bytes]

\* The template data: chart_image_base64, alert_time_str, rtn_time_str, and
\* the objects passed to template.render
ModelStep(q) ==
  LET rec == q.alert_history_record[1]
  IN [Enter(q, "ModelBuilt") EXCEPT
        !.model = Some([alert |-> q.alert,
                        alert_history |-> rec,
                        alert_time |-> fromtimestamp(tz, rec.timestamp),
                        rtn_time |-> IF rec.rtnTimestamp > 0
                                     THEN Some(fromtimestamp(tz, rec.rtnTimestamp))
                                     ELSE None,
                        chart_image_base64 |-> b64encode(q.chart_image_bytes[1]),
                        map |-> MapSection(q)])]

BuildModel(r) ==
  /\ req[r].stage = "MapAttempted"
  /\ req' = [req EXCEPT ![r] = ModelStep(@)]
  /\ UNCHANGED <<reqs, tz, upstream>>

\* template.render(...) and weasyprint write_pdf: the document of the model
RenderStep(q) == [Enter(q, "Rendered") EXCEPT !.pdf = Some([document |-> q.model[1]])]

Render(r) ==
  /\ req[r].stage = "ModelBuilt"
  /\ req' = [req EXCEPT ![r] = RenderStep(@)]
  /\ UNCHANGED <<reqs, tz, upstream>>

\* return StreamingResponse(BytesIO(pdf), media_type="application/pdf", ...)
StreamStep(q) ==
  [Enter(q, "Streamed") EXCEPT !.response = [status |-> 200, body |-> q.pdf]]

Stream(r) ==
  /\ req[r].stage = "Rendered"
  /\ req' = [req EXCEPT ![r] = StreamStep(@)]
  /\ UNCHANGED <<reqs, tz, upstream>>

\* ---------------------------------------------------------- specifications
\* The upstream data of a run: event 42 exists, event 43 does not
Upstreams(events42, lists) ==
  { [events |-> (42 :> Some(e)) @@ (43 :> None), alerts |-> l] :
      e \in events42, l \in lists }

Events42 ==
  { EventRecord(42, "a1", T, R) : T \in TimeGrid \ {0}, R \in TimeGrid }

\* One request, any upstream data, any host time zone
Init ==
  /\ reqs = {1}
  /\ tz \in TimeZones
  /\ upstream \in Upstreams(Events42, AlertLists)
  /\ req = [r \in Requests |-> NewRequest]

\* Two requests served concurrently over fixed upstream data
InitConc ==
  /\ reqs = Requests
  /\ tz = UTC
  /\ upstream = [events |-> (42 :> Some(EventRecord(42, "a1", 2 * HourMs, 0)))
                            @@ (43 :> Some(EventRecord(43, "a2", HourMs, 2 * HourMs))),
                 alerts |-> <<AlertDef("a2", "d2"), AlertDef("a1", "d1")>>]
  /\ req = [r \in Requests |-> NewRequest]

Next ==
  \E r \in Requests :
    \/ Receive(r)
    \/ FetchEvent(r)
    \/ FetchDefinition(r)
    \/ ComputeWindow(r)
    \/ FetchChart(r)
    \/ MapAttempted(r)
    \/ BuildModel(r)
    \/ Render(r)
    \/ Stream(r)

Spec == Init /\ [][Next]_vars

ConcSpec == InitConc /\ [][Next]_vars

\* After the chart is fetched the handler only computes (and attempts the
\* map within its own bounded call); it runs on to its return statement
FairSpec ==
  Spec /\ \A r \in Requests :
            WF_vars(MapAttempted(r) \/ BuildModel(r) \/ Render(r) \/ Stream(r))

\* ------------------------------------------------------------- properties
Order ==
  <<"AuthExtracted", "EventFetched", "DefinitionFetched", "WindowComputed",
    "ChartFetched", "MapAttempted", "ModelBuilt", "Rendered", "Streamed">>

Has(q, st) == \E i \in DOMAIN q.trace : q.trace[i] = st

CallsTo(q, endpoint) == {i \in DOMAIN q.calls : q.calls[i].endpoint = endpoint}

\* Position of a stage in Order (0 for "Failed")
StageIndex(st) == IF st = "Failed" THEN 0 ELSE CHOOSE i \in DOMAIN Order : Order[i] = st

\* The stage a successful call to the endpoint completes
StageOf(endpoint) ==
  IF endpoint = "alertlog/getbyeventid" THEN "EventFetched"
  ELSE IF endpoint = "alert/list" THEN "DefinitionFetched"
  ELSE IF endpoint = "sensordata/byrange" THEN "ChartFetched"
  ELSE "MapAttempted"

\* No stage after position k has run
NothingAfter(q, k) == \A i \in DOMAIN q.trace : StageIndex(q.trace[i]) <= k

\* The upstream did not deliver: no answer, or an answer outside 2xx
FailedAnswer(resp) == resp.err \/ resp.status < 200 \/ resp.status > 299

MalformedHeader(h) ==
  \/ h = None
  \/ Len(h[1]) = 0
  \/ Len(h[1]) < Len(Bearer)
  \/ \E i \in DOMAIN Bearer : h[1][i] # Bearer[i]

\* C1: a request whose Authorization header is missing, empty or does not
\* start with "Bearer " ends in the 401 outcome, as its only stage, and has
\* issued no upstream call.
C1_AuthFailureBeforeAnyFetch ==
  \A r \in Requests :
    LET q == req[r]
    IN (q.stage # "Idle" /\ MalformedHeader(q.authorization)) =>
         /\ q.stage = "Failed"
         /\ q.trace = <<"Failed">>
         /\ q.response = [status |-> 401, body |-> None]
         /\ q.calls = <<>>

C1_Witness ==
  \E r \in Requests :
    /\ req[r].stage = "Failed"
    /\ req[r].authorization # None
    /\ Len(req[r].authorization[1]) > 0
    /\ MalformedHeader(req[r].authorization)

\* C2: a failure of the event fetch, of the definition fetch (the list call
\* fails, or the list holds no alert with the event's alertId) or of the
\* chart fetch stops the request there: the failed call is the last call,
\* no later stage has run, and no document is in the response.
C2_FetchFailureAborts ==
  \A r \in Requests :
    LET q == req[r]
    IN /\ \A i \in DOMAIN q.calls :
            (q.calls[i].endpoint # "map" /\ FailedAnswer(q.calls[i].answer)) =>
              /\ i = Len(q.calls)
              /\ NothingAfter(q, StageIndex(StageOf(q.calls[i].endpoint)))
              /\ q.response.body = None
       /\ (Has(q, "DefinitionFetched") /\ q.alert = None) =>
              /\ NothingAfter(q, StageIndex("DefinitionFetched"))
              /\ q.response.body = None

\* C3: a request past the definition fetch holds one alert definition whose
\* id is the alertId of its event (so a lookup that finds none has failed),
\* and a streamed report carries that event and that definition.
C3_DefinitionMatchesEvent ==
  \A r \in Requests :
    LET q == req[r]
    IN /\ Has(q, "DefinitionFetched") =>
            /\ q.alert # None
            /\ q.alert[1].id = q.alert_history_record[1].alertId
       /\ q.stage = "Streamed" =>
            /\ q.response.body[1].document.alert # None
            /\ q.response.body[1].document.alert_history = q.alert_history_record[1]

\* C4: the window is start = T - 1h, end = R + 1h when R > 0, end = now + 1h
\* otherwise, and that window is what the chart fetch is called with.
C4_WindowFormula ==
  \A r \in Requests :
    LET q == req[r]
        T == q.alert_history_record[1].timestamp
        R == q.alert_history_record[1].rtnTimestamp
    IN Has(q, "WindowComputed") =>
         /\ q.start_time = T - HourMs
         /\ R > 0 => q.end_time = R + HourMs
         /\ ~(R > 0) => q.end_time = q.now[1] + HourMs
         /\ \A i \in CallsTo(q, "sensordata/byrange") :
              /\ q.calls[i].args[2] = T - HourMs
              /\ q.calls[i].args[3] = (IF R > 0 THEN R ELSE q.now[1]) + HourMs

\* C5: every computed window has start < end and end >= trigger timestamp.
C5_WindowHasPositiveWidth ==
  \A r \in Requests :
    LET q == req[r]
    IN Has(q, "WindowComputed") =>
         /\ q.start_time < q.end_time
         /\ q.end_time >= q.alert_history_record[1].timestamp

\* C6: the stages of a request run in the fixed order, each after the data
\* it depends on is there; a failed or finished request does nothing more.
InOrder(q) ==
  LET n == Len(q.trace)
  IN \/ n = 0
     \/ n <= Len(Order) /\ q.trace = SubSeq(Order, 1, n)
     \/ n <= Len(Order) /\ q.trace = SubSeq(Order, 1, n - 1) \o <<"Failed">>

C6_StageData(q) ==
  /\ InOrder(q)
  /\ q.stage = (IF q.trace = <<>> THEN "Idle" ELSE q.trace[Len(q.trace)])
  /\ q.calls # <<>> => q.access_token # None
  /\ \A i \in CallsTo(q, "alert/list") :
       /\ i = 2 /\ q.calls[1].endpoint = "alertlog/getbyeventid"
       /\ Has(q, "EventFetched") /\ q.alert_history_record # None
  /\ \A i \in CallsTo(q, "sensordata/byrange") :
       /\ i = 3 /\ Has(q, "WindowComputed")
       /\ q.calls[i].args = <<q.alert_history_record[1].mac, q.start_time,
                              q.end_time, q.alert_history_record[1].type>>
  /\ Has(q, "ModelBuilt") =>
       /\ q.chart_image_bytes # None
       /\ q.model[1].chart_image_base64 = b64encode(q.chart_image_bytes[1])
  /\ Has(q, "Rendered") => q.pdf = Some([document |-> q.model[1]])
  /\ q.response.body # None =>
       Has(q, "Rendered") /\ q.stage = "Streamed" /\ q.response.body = q.pdf
  /\ q.stage = "Streamed" => q.response.status = 200
  /\ q.stage = "Failed" => q.response.status \in {401, 500}

C6_StrictStageOrder ==
  /\ [](\A r \in Requests : C6_StageData(req[r]))
  /\ [][\A r \in Requests :
          req[r].stage \in {"Failed", "Streamed"} => req'[r] = req[r]]_vars

C6_Witness ==
  \E r \in Requests : req[r].stage = "Streamed" /\ req[r].trace = Order

C9_OwnState(q) ==
  /\ \A i \in DOMAIN q.calls :
       /\ Bearer \o q.calls[i].token = q.authorization[1]
       /\ q.calls[i].endpoint = "alertlog/getbyeventid" =>
            q.calls[i].args = <<q.alert_history_record_id>>
  /\ q.api = q.access_token
  /\ q.alert_history_record # None =>
       LET rec == q.alert_history_record[1]
       IN /\ q.alert_history_record = upstream.events[q.alert_history_record_id]
          /\ q.alert # None => q.alert[1].id = rec.alertId
          /\ Has(q, "WindowComputed") =>
               /\ q.start_time = start_time_of(tz, rec.timestamp)
               /\ \E n \in NowValues : q.end_time = end_time_of(tz, rec.rtnTimestamp, n)
          /\ \A i \in CallsTo(q, "sensordata/byrange") :
               q.calls[i].args = <<rec.mac, q.start_time, q.end_time, rec.type>>
          /\ q.stage = "Streamed" =>
               /\ q.response.body[1].document.alert_history = rec
               /\ q.response.body[1].document.alert = q.alert
               /\ q.response.body[1].document.chart_image_base64 =
                    b64encode([mac |-> rec.mac, begin |-> q.start_time,
                               end |-> q.end_time, type |-> rec.type])

C9_RequestsAreIsolated ==
  /\ [](\A r \in Requests : C9_OwnState(req[r]))
  /\ [][\E r \in Requests : \A x \in Requests \ {r} : req'[x] = req[x]]_vars

C9_Witness ==
  /\ req[1].stage = "Streamed" /\ req[2].stage = "Streamed"
  /\ req[1].access_token # req[2].access_token
  /\ req[1].alert_history_record_id # req[2].alert_history_record_id

\* C10: within one request each upstream fetch is issued at most once, and
\* exactly once when its stage was passed: no retry after a failure, no
\* repeat after a success, no answer taken from another request.
C10_EachFetchAtMostOnce ==
  \A r \in Requests :
    LET q == req[r]
        n(endpoint) == Cardinality(CallsTo(q, endpoint))
    IN /\ n("alertlog/getbyeventid") <= 1
       /\ n("alert/list") <= 1
       /\ n("sensordata/byrange") <= 1
       /\ Has(q, "EventFetched") => n("alertlog/getbyeventid") = 1
       /\ Has(q, "DefinitionFetched") => n("alert/list") = 1
       /\ Has(q, "ChartFetched") => n("sensordata/byrange") = 1

C10_Witness ==
  \E r, x \in Requests :
    /\ req[r].stage = "Failed"
    /\ Len(req[r].calls) = 1
    /\ req[r].calls[1].answer.err
    /\ req[x].stage = "Streamed"
    /\ req[x].alert_history_record_id = req[r].alert_history_record_id

====
